---- MODULE Spec2Model ----
(***************************************************************************)
(* The voice-activity recorder hook useVADRecorder (hooks/useVADRecorder.ts)*)
(* as a state machine.  React state (status, isContinuous, ...) is written  *)
(* by the handlers at once; the refs that mirror it (statusRef,             *)
(* isContinuousRef, settingsRef) are written by effects, which run in a     *)
(* later task (Render).  Handlers are operators from a state record to a    *)
(* state record, so that a handler calling another (stopMediaRecorder ->    *)
(* shutdown, initAudio -> analyze) is one step.                             *)
(*                                                                         *)
(* Numbers the code computes by division (average volume, silence          *)
(* progress, durations in seconds) are exact fractions [num, den]; a zero  *)
(* denominator gives JavaScript's NaN (0/0) or Infinity (n/0).             *)
(*                                                                         *)
(* Date.now() is `now`; one unit of it is the time between two animation   *)
(* frames.  A timeout of d fires no sooner than d units after it was armed, *)
(* and a callback passed to requestAnimationFrame runs in a later frame.    *)
(***************************************************************************)
EXTENDS Integers, Sequences, FiniteSets, TLC

\* ---------------------------------------------------------------- bounds
MaxTime == 4
MaxStreams == 2
MaxPending == 2
MaxStops == 1
MaxRecordings == 0
MaxLoops == 2
MaxStored == 2

\* ------------------------------------------------------ program constants
FftSize == 256
MsPerSec == 1000
DefaultSensitivity == 25

NULL == 0
StreamIds == 1..MaxStreams
RecordingIds == 1..(MaxRecordings + 1)
StoredIds == 1..MaxStored

\* ----------------------------------------------------------- JS numbers
RECURSIVE GCD(_, _)
GCD(a, b) == IF b = 0 THEN a ELSE GCD(b, a % b)

NaN == [num |-> 0, den |-> 0]
Infinity == [num |-> 1, den |-> 0]
Num(n) == [num |-> n, den |-> 1]

\* n / d for n >= 0, d >= 0, as JavaScript's number division
Div(n, d) ==
  IF d = 0 THEN (IF n = 0 THEN NaN ELSE Infinity)
  ELSE LET g == GCD(n, d) IN [num |-> n \div g, den |-> d \div g]

\* a > b; false when either side is NaN
Gt(a, b) ==
  IF a = NaN \/ b = NaN THEN FALSE
  ELSE IF a = Infinity THEN b # Infinity
  ELSE IF b = Infinity THEN FALSE
  ELSE a.num * b.den > b.num * a.den

\* Math.min(a, b): NaN if either argument is NaN
MathMin(a, b) ==
  IF a = NaN \/ b = NaN THEN NaN
  ELSE IF Gt(a, b) THEN b ELSE a

\* ------------------------------------------------------------- settings
\* the range of the sensitivity slider and of an analyser byte
Sensitivities == 0..100
Volumes == 0..255
DefaultSettings == [sensitivity |-> DefaultSensitivity, silenceTimeout |-> 1]

\* ---------------------------------------------------- analyser frames
BinCount == FftSize \div 2
UniformFrame(v) == [i \in 1..BinCount |-> v]
\* half the bins at 62, half at 63: the average is exactly 62.5
EdgeFrame == [i \in 1..BinCount |-> IF i % 2 = 0 THEN 62 ELSE 63]
ZeroFrame == UniformFrame(0)
LoudFrame == UniformFrame(100)
UniformFrames == {UniformFrame(v) : v \in Volumes}
Frames == UniformFrames \cup {EdgeFrame}
\* what a live microphone delivers in the model: room noise or speech
LiveFrames == {EdgeFrame, LoudFrame}
\* what getByteFrequencyData delivers on an analyser that has not processed
\* any audio yet
FreshAnalyserFrames == {ZeroFrame}

\* the sum of dataArray[lo..hi]
RECURSIVE SumRange(_, _, _)
SumRange(f, lo, hi) ==
  IF lo > hi THEN 0
  ELSE IF lo = hi THEN f[lo]
  ELSE LET mid == (lo + hi) \div 2
       IN SumRange(f, lo, mid) + SumRange(f, mid + 1, hi)

Average(f) == Div(SumRange(f, 1, Len(f)), Len(f))
FrameAverage == [f \in Frames |-> Average(f)]

VARIABLES
  status, statusRef, isContinuous, isContinuousRef, settings, settingsRef,
  currentVolume, silenceProgress, recordingDuration, recordings,
  audioContextRef, analyserRef, mediaRecorderRef, chunksRef, streamRef,
  silenceTimerRef, silenceTimerStartRef, recordingStartTimeRef,
  isVoiceActiveRef, animationFrameRef,
  liveStreams, recState, startedAt, stopQueue, rafDue, rafNext, timers,
  pendingGUM, now,
  lastProcessedId, forwarded,
  last

vars == <<status, statusRef, isContinuous, isContinuousRef, settings, settingsRef,
  currentVolume, silenceProgress, recordingDuration, recordings,
  audioContextRef, analyserRef, mediaRecorderRef, chunksRef, streamRef,
  silenceTimerRef, silenceTimerStartRef, recordingStartTimeRef,
  isVoiceActiveRef, animationFrameRef,
  liveStreams, recState, startedAt, stopQueue, rafDue, rafNext, timers,
  pendingGUM, now, lastProcessedId, forwarded, last>>

\* The state as one record, for the handlers.
St == [
  status |-> status, statusRef |-> statusRef,
  isContinuous |-> isContinuous, isContinuousRef |-> isContinuousRef,
  settings |-> settings, settingsRef |-> settingsRef,
  currentVolume |-> currentVolume, silenceProgress |-> silenceProgress,
  recordingDuration |-> recordingDuration, recordings |-> recordings,
  audioContextRef |-> audioContextRef, analyserRef |-> analyserRef,
  mediaRecorderRef |-> mediaRecorderRef, chunksRef |-> chunksRef,
  streamRef |-> streamRef, silenceTimerRef |-> silenceTimerRef,
  silenceTimerStartRef |-> silenceTimerStartRef,
  recordingStartTimeRef |-> recordingStartTimeRef,
  isVoiceActiveRef |-> isVoiceActiveRef, animationFrameRef |-> animationFrameRef,
  liveStreams |-> liveStreams, recState |-> recState, stopQueue |-> stopQueue,
  rafDue |-> rafDue, rafNext |-> rafNext, timers |-> timers,
  startedAt |-> startedAt,
  pendingGUM |-> pendingGUM, now |-> now,
  lastProcessedId |-> lastProcessedId, forwarded |-> forwarded ]

\* The bounds of the model: an action whose result exceeds them is not taken.
Bounded(r) ==
  /\ Len(r.stopQueue) <= MaxStops
  /\ r.pendingGUM <= MaxPending
  /\ r.rafDue + r.rafNext <= MaxLoops

\* the next state is r
Assign(r) ==
  /\ startedAt' = r.startedAt
  /\ status' = r.status /\ statusRef' = r.statusRef
  /\ isContinuous' = r.isContinuous /\ isContinuousRef' = r.isContinuousRef
  /\ settings' = r.settings /\ settingsRef' = r.settingsRef
  /\ currentVolume' = r.currentVolume /\ silenceProgress' = r.silenceProgress
  /\ recordingDuration' = r.recordingDuration /\ recordings' = r.recordings
  /\ audioContextRef' = r.audioContextRef /\ analyserRef' = r.analyserRef
  /\ mediaRecorderRef' = r.mediaRecorderRef /\ chunksRef' = r.chunksRef
  /\ streamRef' = r.streamRef /\ silenceTimerRef' = r.silenceTimerRef
  /\ silenceTimerStartRef' = r.silenceTimerStartRef
  /\ recordingStartTimeRef' = r.recordingStartTimeRef
  /\ isVoiceActiveRef' = r.isVoiceActiveRef
  /\ animationFrameRef' = r.animationFrameRef
  /\ liveStreams' = r.liveStreams /\ recState' = r.recState
  /\ stopQueue' = r.stopQueue /\ rafDue' = r.rafDue /\ rafNext' = r.rafNext
  /\ timers' = r.timers
  /\ pendingGUM' = r.pendingGUM
  /\ now' = r.now
  /\ lastProcessedId' = r.lastProcessedId /\ forwarded' = r.forwarded

Apply(r) == Bounded(r) /\ Assign(r)

\* State after construction of the hook (useState / useRef initial values)
\* and of the page that uses it: no Recording has been forwarded.
Init ==
  /\ status = "IDLE" /\ statusRef = "IDLE"
  /\ isContinuous = FALSE /\ isContinuousRef = FALSE
  /\ settings = DefaultSettings /\ settingsRef = DefaultSettings
  /\ currentVolume = Num(0) /\ silenceProgress = Num(0)
  /\ recordingDuration = Num(0) /\ recordings = <<>>
  /\ audioContextRef = NULL /\ analyserRef = NULL /\ mediaRecorderRef = NULL
  /\ chunksRef = <<>> /\ streamRef = NULL
  /\ silenceTimerRef = NULL /\ silenceTimerStartRef = NULL
  /\ recordingStartTimeRef = NULL
  /\ isVoiceActiveRef = FALSE /\ animationFrameRef = "null"
  /\ liveStreams = {} /\ recState = [e \in StreamIds |-> "none"]
  /\ startedAt = [e \in StreamIds |-> NULL]
  /\ stopQueue = <<>> /\ rafDue = 0 /\ rafNext = 0 /\ timers = {}
  /\ pendingGUM = 0 /\ now = 1
  /\ lastProcessedId = NULL /\ forwarded = [id \in StoredIds |-> 0]
  /\ last = [op |-> "init", from |-> "IDLE", armed |-> FALSE,
             startRejected |-> FALSE]

\* ------------------------------------------------- platform primitives
\* cancelAnimationFrame(animationFrameRef.current): the handle is "due" (runs
\* in this frame), "next" (runs in a later frame), "stale" (already ran or
\* cancelled) or "null".
cancelAnimationFrame(s) ==
  IF s.animationFrameRef = "due"
    THEN [s EXCEPT !.rafDue = @ - 1, !.animationFrameRef = "stale"]
  ELSE IF s.animationFrameRef = "next"
    THEN [s EXCEPT !.rafNext = @ - 1, !.animationFrameRef = "stale"]
  ELSE s

\* animationFrameRef.current = requestAnimationFrame(analyze)
requestAnimationFrame(s) ==
  [s EXCEPT !.rafNext = @ + 1, !.animationFrameRef = "next"]

\* a clearTimeout that leaves the callback scheduled
clearTimeoutIgnored(s, id) == s

\* window.clearTimeout(id)
clearTimeout(s, id) ==
  [s EXCEPT !.timers = {t \in @ : t.id # id}]

FreshTimerId(s) ==
  CHOOSE i \in 1..(Cardinality(s.timers) + 1) : \A t \in s.timers : t.id # i

\* MediaRecorder.stop(): the recorder is inactive at once; the dataavailable
\* and stop events are delivered later, in one task.  startedAt is the
\* instant at which the encoder began the segment it is encoding; the events
\* of a stop carry it.
recorderStop(s, enc) ==
  [s EXCEPT !.recState = [@ EXCEPT ![enc] = "inactive"],
            !.startedAt = [@ EXCEPT ![enc] = NULL],
            !.stopQueue = Append(@, [enc |-> enc, started |-> s.startedAt[enc]])]

\* ------------------------------------------------------------ handlers
\* a teardown that stops the encoder without looking at its state
shutdownUnguardedStop(s) ==
  LET s1 == cancelAnimationFrame(s)
      s2 == IF s1.silenceTimerRef # NULL
              THEN clearTimeout(s1, s1.silenceTimerRef) ELSE s1
      enc == s2.mediaRecorderRef
      s3 == IF enc # NULL THEN recorderStop(s2, enc) ELSE s2
      s4 == [s3 EXCEPT !.liveStreams = @ \ {s3.streamRef}]
  IN [s4 EXCEPT
        !.status = "IDLE",
        !.currentVolume = Num(0),
        !.silenceProgress = Num(0),
        !.recordingDuration = Num(0),
        !.isVoiceActiveRef = FALSE,
        !.silenceTimerStartRef = NULL,
        !.recordingStartTimeRef = NULL,
        !.silenceTimerRef = NULL,
        !.analyserRef = NULL,
        !.streamRef = NULL,
        !.audioContextRef = NULL,
        !.chunksRef = <<>>]

shutdown(s) ==
  LET s1 == cancelAnimationFrame(s)
      s2 == IF s1.silenceTimerRef # NULL
              THEN clearTimeout(s1, s1.silenceTimerRef) ELSE s1
      enc == s2.mediaRecorderRef
      s3 == IF enc # NULL /\ s2.recState[enc] # "inactive"
              THEN recorderStop(s2, enc) ELSE s2
      s4 == [s3 EXCEPT !.liveStreams = @ \ {s3.streamRef}]
  IN [s4 EXCEPT
        !.status = "IDLE",
        !.currentVolume = Num(0),
        !.silenceProgress = Num(0),
        !.recordingDuration = Num(0),
        !.isVoiceActiveRef = FALSE,
        !.silenceTimerStartRef = NULL,
        !.recordingStartTimeRef = NULL,
        !.silenceTimerRef = NULL,
        !.analyserRef = NULL,
        !.streamRef = NULL,
        !.audioContextRef = NULL,
        !.chunksRef = <<>>]

\* a start that leaves the published duration of the segment before
startMediaRecorderKeepsDuration(s, startOk) ==
  LET enc == s.mediaRecorderRef IN
  IF enc # NULL /\ s.recState[enc] = "inactive"
    THEN LET s1 == [s EXCEPT !.chunksRef = <<>>] IN
         IF startOk
           THEN [s1 EXCEPT !.recState = [@ EXCEPT ![enc] = "recording"],
                           !.startedAt = [@ EXCEPT ![enc] = s.now],
                           !.recordingStartTimeRef = s.now,
                           !.status = "RECORDING"]
           ELSE s1
    ELSE s

\* a start that publishes RECORDING before the encoder has accepted it
startMediaRecorderEager(s, startOk) ==
  LET enc == s.mediaRecorderRef IN
  IF enc # NULL /\ s.recState[enc] = "inactive"
    THEN LET s1 == [s EXCEPT !.chunksRef = <<>>,
                             !.recordingDuration = Num(0),
                             !.status = "RECORDING"] IN
         IF startOk
           THEN [s1 EXCEPT !.recState = [@ EXCEPT ![enc] = "recording"],
                           !.startedAt = [@ EXCEPT ![enc] = s.now],
                           !.recordingStartTimeRef = s.now]
           ELSE s1
    ELSE s

\* startOk: whether MediaRecorder.start() returns (TRUE) or throws (FALSE)
startMediaRecorder(s, startOk) ==
  LET enc == s.mediaRecorderRef IN
  IF enc # NULL /\ s.recState[enc] = "inactive"
    THEN LET s1 == [s EXCEPT !.chunksRef = <<>>] IN
         IF startOk
           THEN [s1 EXCEPT !.recState = [@ EXCEPT ![enc] = "recording"],
                           !.startedAt = [@ EXCEPT ![enc] = s.now],
                           !.recordingStartTimeRef = s.now,
                           !.recordingDuration = Num(0),
                           !.status = "RECORDING"]
           ELSE s1
    ELSE s

\* a segment boundary that leaves the fired timer's handle in silenceTimerRef
stopMediaRecorderKeepsHandle(s) ==
  LET enc == s.mediaRecorderRef IN
  IF enc # NULL /\ s.recState[enc] = "recording"
    THEN LET s1 == recorderStop(s, enc) IN
         IF s1.isContinuousRef
           THEN [s1 EXCEPT !.status = "LISTENING",
                           !.silenceProgress = Num(0),
                           !.silenceTimerStartRef = NULL,
                           !.isVoiceActiveRef = FALSE]
           ELSE shutdown(s1)
    ELSE shutdown(s)

stopMediaRecorder(s) ==
  LET enc == s.mediaRecorderRef IN
  IF enc # NULL /\ s.recState[enc] = "recording"
    THEN LET s1 == recorderStop(s, enc) IN
         IF s1.isContinuousRef
           THEN LET s2 == [s1 EXCEPT !.status = "LISTENING",
                                     !.silenceProgress = Num(0),
                                     !.silenceTimerStartRef = NULL,
                                     !.isVoiceActiveRef = FALSE]
                IN IF s2.silenceTimerRef # NULL
                     THEN [clearTimeout(s2, s2.silenceTimerRef)
                             EXCEPT !.silenceTimerRef = NULL]
                     ELSE s2
           ELSE shutdown(s1)
    ELSE shutdown(s)

\* the VAD threshold on the 0..255 volume scale
Threshold(sensitivity) == Div(sensitivity * 5, 2)

\* a comparison that also takes a sample equal to the threshold for voice
IsVoiceOrEqual(average, sensitivity) ==
  average # NaN /\ ~Gt(Threshold(sensitivity), average)

IsVoice(average, sensitivity) == Gt(average, Threshold(sensitivity))

\* window.setTimeout(() => stopMediaRecorder(), delay) at a silent sample
armSilenceTimer(s) ==
  IF s.isVoiceActiveRef /\ s.statusRef = "RECORDING" /\ s.silenceTimerRef = NULL
    THEN LET id == FreshTimerId(s) IN
         [s EXCEPT !.silenceTimerStartRef = s.now,
                   !.silenceTimerRef = id,
                   !.timers = @ \cup {[id |-> id,
                        deadline |-> s.now + s.settingsRef.silenceTimeout]}]
    ELSE s

publishSilenceProgress(s) ==
  IF s.silenceTimerStartRef # NULL /\ s.statusRef = "RECORDING"
    THEN [s EXCEPT !.silenceProgress =
            MathMin(Div(s.now - s.silenceTimerStartRef,
                        s.settingsRef.silenceTimeout), Num(1))]
    ELSE [s EXCEPT !.silenceProgress = Num(0)]

\* one run of the sampling loop on the frame the analyser delivers
analyze(s, frame, startOk) ==
  IF s.analyserRef = NULL THEN s
  ELSE
    LET average == FrameAverage[frame]
        s1 == [s EXCEPT !.currentVolume = average]
        s2 == IF s1.recordingStartTimeRef # NULL /\ s1.statusRef = "RECORDING"
                THEN [s1 EXCEPT !.recordingDuration =
                        Div(s1.now - s1.recordingStartTimeRef, MsPerSec)]
                ELSE s1
        s3 == IF IsVoice(average, s2.settingsRef.sensitivity)
                THEN LET a == IF ~s2.isVoiceActiveRef
                                THEN LET v == [s2 EXCEPT !.isVoiceActiveRef = TRUE]
                                     IN IF v.statusRef = "LISTENING"
                                          THEN startMediaRecorder(v, startOk)
                                          ELSE v
                                ELSE s2
                         b == IF a.silenceTimerRef # NULL
                                THEN [clearTimeout(a, a.silenceTimerRef)
                                        EXCEPT !.silenceTimerRef = NULL]
                                ELSE a
                     IN [b EXCEPT !.silenceTimerStartRef = NULL,
                                  !.silenceProgress = Num(0)]
                ELSE publishSilenceProgress(armSilenceTimer(s2))
    IN requestAnimationFrame(s3)

\* ---------------------------------------------------------- initAudio
\* Streams and the objects built on them (audio context, analyser, encoder)
\* are named by the stream's id.  An id is in use while anything can still
\* reach the objects it names.
RangeOf(q) == {q[i] : i \in 1..Len(q)}

InUse(s) ==
  (s.liveStreams \cup {q.enc : q \in RangeOf(s.stopQueue)}
     \cup {s.streamRef, s.mediaRecorderRef, s.analyserRef, s.audioContextRef}
     \cup {e \in StreamIds : s.recState[e] = "recording"}) \ {NULL}

FreshStream(s) == CHOOSE id \in StreamIds \ InUse(s) :
                    \A other \in StreamIds \ InUse(s) : id <= other

\* Encoders nothing refers to any more are forgotten.
Collect(s) ==
  [s EXCEPT !.recState = [e \in StreamIds |->
                            IF e \in InUse(s) THEN s.recState[e] ELSE "none"]]

\* initAudio from the analyser on: recorderOk is whether
\* new MediaRecorder(stream, {mimeType}) returns or throws.
initAudioRest(s, id, recorderOk, frame, startOk) ==
  LET s1 == [s EXCEPT !.audioContextRef = id, !.analyserRef = id] IN
  IF recorderOk
    THEN analyze([s1 EXCEPT !.recState = [@ EXCEPT ![id] = "inactive"],
                            !.mediaRecorderRef = id,
                            !.status = "LISTENING"], frame, startOk)
    ELSE [s1 EXCEPT !.status = "ERROR"]

\* initAudio once getUserMedia has resolved with stream id; contextOk is
\* whether constructing the AudioContext returns or throws.  The context is
\* taken to be created running, so that initAudio runs to its end in the
\* task in which getUserMedia resolves.
initAudioStream(s, id, contextOk, recorderOk, frame, startOk) ==
  LET s1 == [s EXCEPT !.pendingGUM = @ - 1,
                      !.liveStreams = @ \cup {id},
                      !.streamRef = id]
  IN IF contextOk
       THEN initAudioRest(s1, id, recorderOk, frame, startOk)
       ELSE [s1 EXCEPT !.status = "ERROR"]

\* initAudio up to its first await
initAudio(s) == [s EXCEPT !.pendingGUM = @ + 1]

toggleListen(s, continuous) ==
  LET s1 == [s EXCEPT !.isContinuous = continuous] IN
  IF s1.statusRef = "IDLE" \/ s1.statusRef = "ERROR"
    THEN initAudio(s1)
    ELSE shutdown(s1)

\* mediaRecorder.ondataavailable then mediaRecorder.onstop, for encoder enc
\* delivering a blob of the given size; id is the random id drawn.
onDataAvailableDropped(s, enc, size) == s

onDataAvailable(s, enc, size) ==
  IF size > 0 THEN [s EXCEPT !.chunksRef = Append(@, enc)] ELSE s

\* a finalize that stores a Recording whatever the chunk buffer holds
onStopUnchecked(s, id) ==
  LET duration == IF s.recordingStartTimeRef # NULL
                    THEN Div(s.now - s.recordingStartTimeRef, MsPerSec)
                    ELSE Num(0)
      newRecording == [id |-> id, blob |-> s.chunksRef,
                       timestamp |-> s.now,
                       duration |-> duration,
                       transcription |-> NULL, summary |-> NULL]
  IN [s EXCEPT !.recordings = <<newRecording>> \o @,
               !.chunksRef = <<>>]

onStop(s, id) ==
  IF Len(s.chunksRef) > 0
    THEN LET duration == IF s.recordingStartTimeRef # NULL
                           THEN Div(s.now - s.recordingStartTimeRef, MsPerSec)
                           ELSE Num(0)
             newRecording == [id |-> id, blob |-> s.chunksRef,
                              timestamp |-> s.now,
                              duration |-> duration,
                              transcription |-> NULL, summary |-> NULL]
         IN [s EXCEPT !.recordings = <<newRecording>> \o @,
                      !.chunksRef = <<>>]
    ELSE s

\* deleteRecording(id): prev.filter(r => r.id !== id)
deleteRecording(s, id) ==
  [s EXCEPT !.recordings = SelectSeq(@, LAMBDA r : r.id # id)]

\* handleUpdateRecording(updated): prev.map(r => r.id === updated.id ? updated : r)
handleUpdateRecording(s, updated) ==
  [s EXCEPT !.recordings = [i \in 1..Len(@) |->
                              IF @[i].id = updated.id THEN updated ELSE @[i]]]

\* The page's effect on the list of recordings: the head of the list is
\* handed to sendToWebhook unless its id is the one handed over last.
\* forwarded counts the POSTs made for each id.
forwardLatest(s) ==
  IF s.recordings # <<>> /\ Head(s.recordings).id # s.lastProcessedId
    THEN LET id == Head(s.recordings).id IN
         [s EXCEPT !.lastProcessedId = id,
                   !.forwarded = [s.forwarded EXCEPT ![id] = s.forwarded[id] + 1]]
    ELSE s

\* the effects that copy state into the refs
syncRefs(s) ==
  [s EXCEPT !.settingsRef = s.settings,
            !.statusRef = s.status,
            !.isContinuousRef = s.isContinuous]

RefsSynced(s) ==
  /\ s.settingsRef = s.settings
  /\ s.statusRef = s.status
  /\ s.isContinuousRef = s.isContinuous

\* the frames the analyser of the current session can deliver: silence once
\* the tracks of its stream have been stopped
SampledOn(s, id) == IF id \in s.liveStreams THEN LiveFrames ELSE {ZeroFrame}
Sampled(s) == SampledOn(s, s.analyserRef)

\* Only differences of times are ever computed, so the clock and every time
\* the state still holds are shifted together, the oldest of them to 1.
TimesHeld(s) ==
  ({s.now, s.recordingStartTimeRef, s.silenceTimerStartRef}
     \cup {t.deadline : t \in s.timers}
     \cup {s.startedAt[e] : e \in StreamIds}
     \cup {q.started : q \in RangeOf(s.stopQueue)}
     \cup {r.timestamp : r \in RangeOf(s.recordings)}) \ {NULL}

Oldest(s) == CHOOSE t \in TimesHeld(s) : \A u \in TimesHeld(s) : t <= u

Shift(t, by) == IF t = NULL THEN NULL ELSE t - by

Rebase(s) ==
  LET by == Oldest(s) - 1 IN
  [s EXCEPT !.now = @ - by,
            !.recordingStartTimeRef = Shift(@, by),
            !.silenceTimerStartRef = Shift(@, by),
            !.timers = {[t EXCEPT !.deadline = @ - by] : t \in @},
            !.startedAt = [e \in StreamIds |-> Shift(@[e], by)],
            !.stopQueue = [i \in 1..Len(@) |->
                             [@[i] EXCEPT !.started = Shift(@, by)]],
            !.recordings = [i \in 1..Len(@) |->
                              [@[i] EXCEPT !.timestamp = @ - by]]]

\* -------------------------------------------------------------- actions
\* last records which handler ran last, the status it started from, whether
\* a silence timer was armed when it began and whether the encoder rejected
\* a start() in it; no handler reads it.
StepWith(op, r, rejected) ==
  /\ Apply(Rebase(Collect(r)))
  /\ last' = [op |-> op, from |-> status, armed |-> silenceTimerRef # NULL,
              startRejected |-> rejected]

Step(op, r) == StepWith(op, r, FALSE)

ToggleListen ==
  \E continuous \in BOOLEAN : Step("ToggleListen", toggleListen(St, continuous))

\* getUserMedia resolves and initAudio runs on; outcomes are the ways the
\* constructors of AudioContext and MediaRecorder can end (TRUE: return)
AcquireWith(outcomes) ==
  /\ pendingGUM > 0
  /\ StreamIds \ InUse(St) # {}
  /\ \E contextOk \in outcomes, recorderOk \in outcomes,
        startOk \in BOOLEAN, frame \in FreshAnalyserFrames :
       LET id == FreshStream(St)
           r(ok) == initAudioStream(St, id, contextOk, recorderOk, frame, ok)
       IN StepWith("GetUserMediaResolve", r(startOk),
                   ~startOk /\ r(TRUE) # r(FALSE))

GetUserMediaResolve == AcquireWith(BOOLEAN)

GetUserMediaReject ==
  /\ pendingGUM > 0
  /\ Step("GetUserMediaReject", [St EXCEPT !.pendingGUM = @ - 1, !.status = "ERROR"])

\* a callback of the sampling loop runs: the one animationFrameRef names
\* (referenced) or another one still scheduled
TickOn(frames) ==
  /\ rafDue > 0
  /\ \E referenced \in BOOLEAN, startOk \in BOOLEAN, frame \in frames :
       /\ referenced => animationFrameRef = "due"
       /\ ~referenced => rafDue > (IF animationFrameRef = "due" THEN 1 ELSE 0)
       /\ LET s == [St EXCEPT !.rafDue = @ - 1,
                                !.animationFrameRef =
                                   IF referenced THEN "stale" ELSE @]
          IN StepWith("Tick", analyze(s, frame, startOk),
                      ~startOk /\ analyze(s, frame, TRUE) # analyze(s, frame, FALSE))

Tick == TickOn(Sampled(St))

\* the silence deadline's callback runs
SilenceTimeout ==
  \E t \in timers :
    /\ now >= t.deadline
    /\ Step("SilenceTimeout", stopMediaRecorder([St EXCEPT !.timers = @ \ {t}]))

Shutdown == Step("Shutdown", shutdown(St))

\* the encoder delivers the events of one stop()
FinalizeWith(ids, most) ==
  /\ stopQueue # <<>>
  /\ \E size \in {0, 1}, id \in ids :
       LET r == onStop(onDataAvailable([St EXCEPT !.stopQueue = Tail(@)],
                                       Head(stopQueue).enc, size), id)
       IN Len(r.recordings) <= most /\ Step("Finalize", r)

Finalize == FinalizeWith(RecordingIds, MaxRecordings)

Render ==
  /\ ~RefsSynced(St)
  /\ Step("Render", syncRefs(St))

\* the next frame begins; effects have run by then
Advance ==
  /\ now < MaxTime
  /\ RefsSynced(St)
  /\ Step("Advance", [St EXCEPT !.now = @ + 1,
                     !.rafDue = @ + rafNext,
                     !.rafNext = 0,
                     !.animationFrameRef = IF @ = "next" THEN "due" ELSE @])

Next ==
  \/ ToggleListen
  \/ GetUserMediaResolve
  \/ GetUserMediaReject
  \/ Tick
  \/ SilenceTimeout
  \/ Shutdown
  \/ Finalize
  \/ Render
  \/ Advance

Spec == Init /\ [][Next]_vars

\* ------------------------------------------- the whole threshold range
\* One session per sensitivity of the slider: the user sets the sensitivity,
\* starts a one-shot session, and the loop samples every volume once.

\* the sensitivity slider's onChange
SetSensitivity ==
  /\ last.op = "init"
  /\ \E sensitivity \in Sensitivities :
       Step("SetSensitivity", [St EXCEPT !.settings.sensitivity = sensitivity])

\* the microphone button, pressed once
PressListen ==
  /\ last.op # "init"
  /\ status = "IDLE" /\ pendingGUM = 0
  /\ Step("ToggleListen", toggleListen(St, FALSE))

FirstAdvance ==
  /\ last.op = "Render"
  /\ status = "LISTENING"
  /\ Advance

\* the loop's callback on a frame of any volume
VolumeTick ==
  /\ last.op = "Advance"
  /\ TickOn(Frames)

ThresholdNext ==
  \/ SetSensitivity
  \/ PressListen
  \/ GetUserMediaResolve
  \/ Render
  \/ FirstAdvance
  \/ VolumeTick

ThresholdSpec == Init /\ [][ThresholdNext]_vars

\* ------------------------------------------------------ the segments
\* Sessions started one at a time (the button is pressed when no acquisition
\* is pending and the effects have run), with the recordings they produce.
MaxSegments == 1

PressToggle ==
  /\ pendingGUM = 0 /\ RefsSynced(St)
  /\ \E continuous \in BOOLEAN : Step("ToggleListen", toggleListen(St, continuous))

SegmentFinalize == FinalizeWith(RecordingIds, MaxSegments)

SegmentNext ==
  \/ PressToggle
  \/ GetUserMediaResolve
  \/ GetUserMediaReject
  \/ Tick
  \/ SilenceTimeout
  \/ SegmentFinalize
  \/ Render
  \/ Advance

SegmentSpec == Init /\ [][SegmentNext]_vars

\* ------------------------------------------------- the recording store
\* One-shot sessions of a speaker who never pauses, each ended by the button
\* within a frame of its start, with the store's operations.
StoreAcquire == AcquireWith({TRUE})

StoreTick == TickOn({LoudFrame})

\* the microphone button, pressed to start and to stop
StoreToggle ==
  /\ pendingGUM = 0 /\ RefsSynced(St)
  /\ Step("ToggleListen", toggleListen(St, FALSE))

StoreFinalize == FinalizeWith(StoredIds, MaxStored)

\* the delete button of a recording card, or a delete of an id not listed
DeleteRecording ==
  \E id \in StoredIds \cup {MaxStored + 1} :
    Step("DeleteRecording", deleteRecording(St, id))

\* the Recording values a caller of handleUpdateRecording passes: an entry
\* of the list with a transcription and a summary attached
Updates(s) ==
  {[r EXCEPT !.transcription = 1, !.summary = 1] : r \in RangeOf(s.recordings)}

UpdateRecording ==
  \E updated \in Updates(St) :
    Step("UpdateRecording", handleUpdateRecording(St, updated))

StoreNext ==
  \/ StoreToggle
  \/ StoreAcquire
  \/ StoreTick
  \/ StoreFinalize
  \/ Render
  \/ FirstAdvance
  \/ DeleteRecording
  \/ UpdateRecording

StoreSpec == Init /\ [][StoreNext]_vars

\* ---------------------------------------------------- forced stops
\* Sessions of a speaker who never pauses, ended by the button or by
\* shutdown() (the automation's stop signal), with the recordings they leave.
ForcedStopNext ==
  \/ StoreToggle
  \/ Shutdown
  \/ StoreAcquire
  \/ StoreTick
  \/ StoreFinalize
  \/ Render
  \/ FirstAdvance

ForcedStopSpec == Init /\ [][ForcedStopNext]_vars

\* ------------------------------------------------------- the webhook
\* The page forwards recordings to the webhook: after every change of the
\* list its effect runs.  Every Recording gets an id no Recording had before,
\* so that an id names one Recording.
UnusedIds(s) ==
  {id \in StoredIds : s.forwarded[id] = 0
                        /\ \A i \in 1..Len(s.recordings) : s.recordings[i].id # id}

WebhookFinalize ==
  /\ stopQueue # <<>>
  /\ \E size \in {0, 1}, id \in UnusedIds(St) :
       LET r == onStop(onDataAvailable([St EXCEPT !.stopQueue = Tail(@)],
                                       Head(stopQueue).enc, size), id)
       IN Len(r.recordings) <= MaxStored /\ Step("Finalize", forwardLatest(r))

WebhookDelete ==
  \E i \in 1..Len(recordings) :
    Step("DeleteRecording", forwardLatest(deleteRecording(St, recordings[i].id)))

WebhookUpdate ==
  \E updated \in Updates(St) :
    Step("UpdateRecording", forwardLatest(handleUpdateRecording(St, updated)))

WebhookNext ==
  \/ StoreToggle
  \/ StoreAcquire
  \/ StoreTick
  \/ Render
  \/ FirstAdvance
  \/ WebhookFinalize
  \/ WebhookDelete
  \/ WebhookUpdate

WebhookSpec == Init /\ [][WebhookNext]_vars

\* ------------------------------------------------- remote commands
\* The page's handler of the messages of its EventSource.  The effect that
\* registers it depends on automation.remoteTriggerId alone, which is set
\* once, so the handler called is the handleAutomationWorkflow of the first
\* render: the status it reads is the status of that render.
handlerStatus == "IDLE"

RemoteCommands == {"start", "call", "stop"}

handleAutomationWorkflow(s, cmd) ==
  IF cmd = "start"
    THEN IF handlerStatus = "IDLE" \/ handlerStatus = "ERROR"
           THEN toggleListen(s, FALSE) ELSE s
  ELSE IF cmd = "call"
    THEN IF handlerStatus = "IDLE" \/ handlerStatus = "ERROR"
           THEN toggleListen(s, TRUE) ELSE s
  ELSE shutdown(s)

\* a message arrives while no acquisition is pending and the effects have run
RemoteCommand ==
  /\ pendingGUM = 0 /\ RefsSynced(St)
  /\ \E cmd \in RemoteCommands :
       Step(IF cmd = "stop" THEN "RemoteStop" ELSE "RemoteStart",
            handleAutomationWorkflow(St, cmd))

RemoteNext ==
  \/ RemoteCommand
  \/ StoreAcquire
  \/ Tick
  \/ SilenceTimeout
  \/ Render
  \/ Advance

RemoteSpec == Init /\ [][RemoteNext]_vars

\* ------------------------------------------------ the silence window
\* Sessions started one at a time while the user moves the silence-timeout
\* slider, also while a silence window is open.  A timeout is a number of
\* frames; AudioSettings.silenceTimeout is a number and may be 0.
SilenceTimeouts == {0, 1, 2, 5}

\* the silence-timeout slider's onChange
SetSilenceTimeout ==
  \E timeout \in SilenceTimeouts \ {settings.silenceTimeout} :
    Step("SetSilenceTimeout", [St EXCEPT !.settings.silenceTimeout = timeout])

SilenceNext ==
  \/ SetSilenceTimeout
  \/ PressToggle
  \/ StoreAcquire
  \/ Tick
  \/ SilenceTimeout
  \/ Render
  \/ Advance

SilenceSpec == Init /\ [][SilenceNext]_vars

TypeOK ==
  /\ status \in {"IDLE", "LISTENING", "RECORDING", "ERROR"}
  /\ statusRef \in {"IDLE", "LISTENING", "RECORDING", "ERROR"}
  /\ animationFrameRef \in {"null", "due", "next", "stale"}
  /\ rafDue >= 0 /\ rafNext >= 0

\* --------------------------------------------------------------- claims
Norm(s) == Rebase(Collect(s))

\* the encoders that are recording
Recording(s) == {e \in StreamIds : s.recState[e] = "recording"}

\* volume <= sensitivity * 2.5, volume a finite fraction
AtMostThreshold(volume, sensitivity) ==
  volume.den > 0 /\ volume.num * 2 <= sensitivity * 5 * volume.den

Active == status \in {"LISTENING", "RECORDING"}

\* the step just taken was the silence deadline of a one-shot recording
OneShotTimedOut ==
  last.op = "SilenceTimeout" /\ last.from = "RECORDING" /\ ~isContinuous

\* C1: in one-shot mode, once the silence deadline has passed while
\* Recording, status is Idle and the microphone stream is released, and
\* nothing but a new toggleListen updates currentVolume or the status.
OneShotTimeoutEndsSession ==
  /\ [](OneShotTimedOut =>
         status = "IDLE" /\ streamRef = NULL /\ liveStreams = {})
  /\ [][OneShotTimedOut /\ last'.op # "ToggleListen"
          => currentVolume' = currentVolume /\ status' = "IDLE"]_vars

\* C2: in continuous mode, once the silence deadline has passed while
\* Recording, status is Listening and the stream is still held; a continuous
\* session reaches Idle only by toggleListen or shutdown.
ContinuousTimeoutKeepsSession ==
  /\ [](last.op = "SilenceTimeout" /\ last.from = "RECORDING" /\ isContinuous
          => status = "LISTENING" /\ streamRef # NULL
             /\ streamRef \in liveStreams)
  /\ [][isContinuous /\ Active /\ status' = "IDLE"
          => last'.op \in {"ToggleListen", "Shutdown"}]_vars

\* the step just taken was a loop tick in Listening whose sample is above
\* the threshold
VoiceTick ==
  /\ last.op = "Tick" /\ last.from = "LISTENING"
  /\ analyserRef # NULL
  /\ ~AtMostThreshold(currentVolume, settingsRef.sensitivity)

\* C3: in continuous mode, when a segment has just ended by silence timeout
\* and status is Listening again, a tick whose sample rises above the
\* threshold starts a new segment on the same stream, with no new
\* acquisition.
ContinuousModeStartsNextSegment ==
  [][/\ last.op = "SilenceTimeout" /\ last.from = "RECORDING"
     /\ isContinuous /\ status = "LISTENING"
     /\ AtMostThreshold(currentVolume, settingsRef.sensitivity)
     /\ VoiceTick' /\ ~last'.startRejected
     => /\ status' = "RECORDING"
        /\ mediaRecorderRef' # NULL
        /\ recState'[mediaRecorderRef'] = "recording"
        /\ streamRef' = streamRef /\ liveStreams' = liveStreams
        /\ pendingGUM' = pendingGUM]_vars

\* C4: after a loop tick in Listening that samples a volume above
\* sensitivity * 2.5 (and whose MediaRecorder.start(), if called, did not
\* throw), status is Recording and the encoder has been started.
VoiceTickStartsRecording ==
  VoiceTick /\ ~last.startRejected
    => /\ status = "RECORDING"
       /\ mediaRecorderRef # NULL
       /\ recState[mediaRecorderRef] = "recording"

\* C5: a loop tick in Listening that samples a volume at or below
\* sensitivity * 2.5 does not move the status to Recording and starts no
\* encoder, for every sensitivity 0..100 and every volume 0..255.
SilentTickNeverStartsRecording ==
  [][/\ status = "LISTENING" /\ last'.op = "Tick"
     /\ AtMostThreshold(currentVolume', settingsRef.sensitivity)
     => status' # "RECORDING" /\ Recording(St') = Recording(St)]_vars

\* a Listening session has sampled a volume exactly at the threshold of the
\* highest sensitivity and stayed in Listening
SampledExactlyThreshold ==
  /\ last.op = "Tick" /\ last.from = "LISTENING"
  /\ settingsRef.sensitivity = 100
  /\ currentVolume = Num(250)
  /\ status = "LISTENING"

\* C6: at most one unreleased microphone stream and at most one recording
\* encoder exist at any time.
SingleInstance ==
  Cardinality(liveStreams) <= 1 /\ Cardinality(Recording(St)) <= 1

\* C7: right after shutdown, status is Idle, no loop callback is scheduled,
\* no silence timer is pending, no encoder is recording and every stream is
\* released.
ShutdownReleasesEverything ==
  last.op = "Shutdown"
    => /\ status = "IDLE"
       /\ rafDue + rafNext = 0
       /\ timers = {}
       /\ Recording(St) = {}
       /\ liveStreams = {}

\* C8: right after shutdown, every field of SessionState has its initial
\* value: status Idle, isContinuous false, the three meters zero.
ShutdownResetsSessionState ==
  last.op = "Shutdown"
    => /\ status = "IDLE"
       /\ isContinuous = FALSE
       /\ currentVolume = Num(0)
       /\ silenceProgress = Num(0)
       /\ recordingDuration = Num(0)

\* C9: shutdown is idempotent (a second call right after a first leaves the
\* state as the first left it) and is a no-op when no session exists.
ShutdownIdempotent ==
  /\ Norm(shutdown(Norm(shutdown(St)))) = Norm(shutdown(St))
  /\ (status = "IDLE" /\ streamRef = NULL => Norm(shutdown(St)) = St)

\* shutdown has just torn down an active session that has an encoder
ShutdownOfActiveSession ==
  /\ last.op = "Shutdown"
  /\ last.from \in {"LISTENING", "RECORDING"}
  /\ mediaRecorderRef # NULL
  /\ status = "IDLE"

\* C10: while a session is active, toggleListen(c) is a stop whatever c is:
\* the resulting state is Idle and is the same, isContinuous included, for
\* c = true and c = false.
ToggleWhileActiveIgnoresMode ==
  Active
    => /\ toggleListen(St, TRUE).status = "IDLE"
       /\ toggleListen(St, FALSE).status = "IDLE"
       /\ toggleListen(St, TRUE) = toggleListen(St, FALSE)


\* toggleListen(c) as it would run were the status, and its mirror, Idle
ToggleFromIdle(c) ==
  toggleListen([St EXCEPT !.status = "IDLE", !.statusRef = "IDLE"], c)

\* C11: when getUserMedia rejects, status becomes Error; a toggleListen in
\* status Error does what it does from Idle (it starts an acquisition and
\* changes nothing else); an acquisition that succeeds ends in Listening.
AcquisitionFailureRecovers ==
  /\ [][last'.op = "GetUserMediaReject" => status' = "ERROR"]_vars
  /\ [](status = "ERROR" =>
          \A c \in BOOLEAN :
            /\ toggleListen(St, c).pendingGUM = pendingGUM + 1
            /\ toggleListen(St, c) =
                 [ToggleFromIdle(c) EXCEPT !.status = "ERROR",
                                           !.statusRef = statusRef])
  /\ [][last'.op = "GetUserMediaResolve" /\ mediaRecorderRef' # mediaRecorderRef
          => status' = "LISTENING"]_vars


\* a Finalize step has put a new Recording at the head of the list
Stored == last'.op = "Finalize" /\ Len(recordings') > Len(recordings)

\* C12: the duration of every Recording added to the store is the time
\* between the start of the segment the encoder delivered and the finalize,
\* in seconds, whichever way the segment ended.
DurationIsSegmentLength ==
  [][Stored =>
       /\ Head(stopQueue).started # NULL
       /\ Head(recordings').duration =
            Div(now - Head(stopQueue).started, MsPerSec)]_vars


\* C13: when the encoder's stop callback runs with an empty chunk buffer
\* (the stop delivered no data), the Recording list is left as it is.
EmptyBufferStoresNothing ==
  /\ Len(chunksRef) = 0 =>
       \A id \in RecordingIds : onStop(St, id).recordings = recordings
  /\ \A enc \in StreamIds, id \in RecordingIds :
       Len(chunksRef) = 0 =>
         onStop(onDataAvailable(St, enc, 0), id).recordings = recordings

\* the events of a stop that delivered no data have been handled, and the
\* list is still empty
FinalizedWithoutData ==
  /\ last.op = "Finalize"
  /\ mediaRecorderRef # NULL /\ recState[mediaRecorderRef] = "inactive"
  /\ chunksRef = <<>> /\ recordings = <<>>


\* seq without its i-th element
RemoveAt(seq, i) == SubSeq(seq, 1, i - 1) \o SubSeq(seq, i + 1, Len(seq))

IdsOf(seq) == {seq[i].id : i \in 1..Len(seq)}

\* C14: deleteRecording(id) leaves the list as it is when no entry has the
\* id, and otherwise removes exactly one entry, one with that id, the others
\* keeping their order.
DeleteRemovesExactlyOne ==
  \A id \in StoredIds \cup {MaxStored + 1} :
    LET after == deleteRecording(St, id).recordings IN
    IF id \notin IdsOf(recordings)
      THEN after = recordings
      ELSE \E i \in 1..Len(recordings) :
             recordings[i].id = id /\ after = RemoveAt(recordings, i)

\* the Recording values handleUpdateRecording may be called with: an entry
\* of the list with a transcription or a summary attached, with another
\* duration, or under an id that is not in the list
AnyUpdates(s) ==
  UNION {{[r EXCEPT !.transcription = 1],
          [r EXCEPT !.summary = 1],
          [r EXCEPT !.duration = Num(MaxTime)],
          [r EXCEPT !.id = MaxStored + 1, !.summary = 1]} :
         r \in RangeOf(s.recordings)}

\* an entry but for its transcription and summary
Unannotated(r) == [r EXCEPT !.transcription = NULL, !.summary = NULL]

\* C15: handleUpdateRecording changes nothing but the transcription and the
\* summary of the entries whose id is the update's id: the list keeps its
\* length and order, the other entries and the other fields stay, and an
\* update under an id not in the list changes nothing.
UpdateTouchesOnlyAnnotations ==
  \A updated \in AnyUpdates(St) :
    LET after == handleUpdateRecording(St, updated).recordings IN
    /\ Len(after) = Len(recordings)
    /\ \A i \in 1..Len(recordings) :
         IF recordings[i].id = updated.id
           THEN Unannotated(after[i]) = Unannotated(recordings[i])
           ELSE after[i] = recordings[i]

\* C16: the list is ordered newest first and no two of its entries have the
\* same id, whatever sequence of finalize, deleteRecording and
\* handleUpdateRecording steps produced it.
NewestFirstUniqueIds ==
  /\ \A i, j \in 1..Len(recordings) :
       i < j => recordings[i].timestamp >= recordings[j].timestamp
  /\ \A i, j \in 1..Len(recordings) :
       i # j => recordings[i].id # recordings[j].id

\* 0 <= x <= 1
InUnitInterval(x) == x # NaN /\ ~Gt(Num(0), x) /\ ~Gt(x, Num(1))

\* C17: the published silence progress is a number between 0 and 1 in every
\* reachable state, whatever the silence timeout is (0 included) and
\* whenever it is changed.
SilenceProgressInUnitInterval == InUnitInterval(silenceProgress)

\* C18: whenever the published silence progress is above 0, the status is
\* RECORDING and a silence timer is armed.
ProgressOnlyInOpenWindow ==
  Gt(silenceProgress, Num(0)) =>
    /\ status = "RECORDING"
    /\ silenceTimerRef # NULL
    /\ \E t \in timers : t.id = silenceTimerRef

\* a run of the sampling loop that finds a silence timer armed and leaves it
\* armed: a tick inside one silence window
TickInsideWindow ==
  /\ last'.op = "Tick"
  /\ silenceTimerRef # NULL /\ silenceTimerRef' # NULL

\* a run of the sampling loop that samples a volume above the threshold
\* while a silence timer is armed
VoiceReactivates ==
  /\ last'.op = "Tick"
  /\ silenceTimerRef # NULL
  /\ IsVoice(currentVolume', settingsRef.sensitivity)

\* C19: from one tick of a silence window to the next the published silence
\* progress does not decrease, also when the settings change in between,
\* and the tick on which voice comes back publishes exactly 0.
ProgressMonotoneInWindow ==
  [][/\ TickInsideWindow => ~Gt(silenceProgress, silenceProgress')
     /\ VoiceReactivates => silenceProgress' = Num(0)]_vars

\* C20: the deadline's callback makes the segment-boundary transition once
\* per silence window.  The only callback ever pending is the one of the
\* timer silenceTimerRef names, so no stale callback can run; and when the
\* callback has run, the status has left RECORDING, the handle is cleared
\* and no callback is pending, so the window cannot fire again.
SilenceDeadlineFiresOnce ==
  /\ [](Cardinality(timers) <= 1 /\ \A t \in timers : t.id = silenceTimerRef)
  /\ [][last'.op = "SilenceTimeout" =>
          /\ status' \in {"LISTENING", "IDLE"}
          /\ silenceTimerRef' = NULL /\ silenceTimerStartRef' = NULL
          /\ timers' = {}]_vars

\* the deadline's callback has just ended a segment of a continuous session
DeadlineCallbackRan ==
  /\ last.op = "SilenceTimeout" /\ last.from = "RECORDING"
  /\ status = "LISTENING" /\ stopQueue # <<>>
  /\ silenceTimerRef = NULL /\ timers = {}

\* the callbacks of the sampling loop still scheduled
PendingLoopCallbacks == rafDue + rafNext

\* the ids no live stream, recording encoder or undelivered stop goes by:
\* those a new session can take once it has overwritten the refs
Free(s) ==
  StreamIds \ (s.liveStreams \cup {q.enc : q \in RangeOf(s.stopQueue)}
                 \cup {e \in StreamIds : s.recState[e] = "recording"})

\* s once the effects have run, toggleListen has been called and its
\* acquisition has run to its end
NewSession(s) ==
  LET s1 == toggleListen(syncRefs(s), FALSE)
  IN initAudioStream(s1, CHOOSE id \in Free(s) : TRUE,
                     TRUE, TRUE, ZeroFrame, TRUE)

\* C21: a callback of the loop or of the silence deadline that is still
\* scheduled when shutdown() has run changes nothing when it fires, whether
\* it fires at once or after a new session has been started.
StaleCallbacksAreNoOps ==
  last.op = "Shutdown" =>
    /\ PendingLoopCallbacks > 0 =>
         \A frame \in LiveFrames \cup {ZeroFrame}, startOk \in BOOLEAN :
           /\ analyze(St, frame, startOk) = St
           /\ Free(St) # {} =>
                analyze(NewSession(St), frame, startOk) = NewSession(St)
    /\ \A t \in timers :
         /\ stopMediaRecorder(St) = St
         /\ Free(St) # {} =>
              stopMediaRecorder(NewSession(St)) = NewSession(St)

\* the fields of the session's published state
SessionState(s) ==
  [status |-> s.status, isContinuous |-> s.isContinuous,
   currentVolume |-> s.currentVolume, silenceProgress |-> s.silenceProgress,
   recordingDuration |-> s.recordingDuration]

\* C22: a start() the encoder rejects makes no transition.  The call of
\* startMediaRecorder leaves every field of the published state as it was;
\* and over the whole tick of the voice onset the status, the mode, the
\* silence progress and the duration stay (the volume is the tick's sample),
\* the encoder is still inactive and the session runs on: stream, analyser
\* and loop are kept.
RejectedStartChangesNothing ==
  /\ [](SessionState(startMediaRecorder(St, FALSE)) = SessionState(St))
  /\ [][last'.op = "Tick" /\ last'.startRejected =>
          /\ [SessionState(St)' EXCEPT !.currentVolume = currentVolume]
               = SessionState(St)
          /\ mediaRecorderRef' = mediaRecorderRef
          /\ recState'[mediaRecorderRef] = "inactive"
          /\ streamRef' = streamRef /\ liveStreams' = liveStreams
          /\ analyserRef' = analyserRef /\ analyserRef # NULL
          /\ animationFrameRef' = "next"]_vars

\* a tick at a voice onset in which the encoder rejected start()
StartWasRejected ==
  /\ last.op = "Tick" /\ last.startRejected /\ last.from = "LISTENING"
  /\ status = "LISTENING" /\ isVoiceActiveRef

\* an encoder begins a segment in this step
SegmentStarts ==
  \E e \in StreamIds : recState[e] # "recording" /\ recState'[e] = "recording"

\* C23: no step in which the status stays RECORDING lowers the published
\* recording duration, and the duration is 0 when a segment has started.
DurationMonotoneWhileRecording ==
  [][/\ status = "RECORDING" /\ status' = "RECORDING" =>
          ~Gt(recordingDuration, recordingDuration')
     /\ SegmentStarts => recordingDuration' = Num(0)]_vars

\* a later tick of a segment has published a duration above 0
DurationGrew ==
  /\ last.op = "Tick" /\ last.from = "RECORDING" /\ status = "RECORDING"
  /\ Gt(recordingDuration, Num(0))

\* a silence timer is armed in this step
Arms == silenceTimerRef = NULL /\ silenceTimerRef' # NULL

\* C24: a silence timer is armed only by a tick that finds the status
\* RECORDING, samples a volume not above the threshold and finds no timer
\* armed; so at most one timer is pending, and none unless the status is
\* RECORDING.
TimerArmedOnlyWhileRecording ==
  /\ [][Arms => /\ last'.op = "Tick"
                 /\ status = "RECORDING"
                 /\ ~IsVoice(currentVolume', settingsRef.sensitivity)
                 /\ timers = {}]_vars
  /\ [](Cardinality(timers) <= 1 /\ (timers # {} => status = "RECORDING"))

\* C25: a tick that samples a volume above the threshold cancels the
\* pending silence timer and publishes silence progress 0 in the same step:
\* no deadline is pending after it, so the window it closed cannot end the
\* segment, and the segment goes on.
VoiceTickDisarms ==
  [][last'.op = "Tick" /\ IsVoice(currentVolume', settingsRef.sensitivity) =>
       /\ timers' = {} /\ silenceTimerRef' = NULL
       /\ silenceTimerStartRef' = NULL
       /\ silenceProgress' = Num(0)
       /\ \A e \in StreamIds : recState[e] = "recording" =>
                                   recState'[e] = "recording"]_vars

\* a voice tick has closed a silence window of a running segment
WindowCancelledByVoice ==
  /\ last.op = "Tick" /\ last.armed /\ last.from = "RECORDING"
  /\ IsVoice(currentVolume, settingsRef.sensitivity)
  /\ status = "RECORDING" /\ silenceTimerRef = NULL /\ timers = {}

\* the handler that ran last went through shutdown()
ShutdownRan ==
  \/ last.op = "Shutdown"
  \/ last.op \in {"ToggleListen", "SilenceTimeout"}
       /\ last.from \in {"LISTENING", "RECORDING"} /\ status = "IDLE"

\* C26: at most one callback of the sampling loop is scheduled at any time,
\* and when a handler has gone through shutdown() none is scheduled and the
\* loop's handle is cleared.
SingleLoopStoppedByShutdown ==
  /\ PendingLoopCallbacks <= 1
  /\ ShutdownRan => PendingLoopCallbacks = 0 /\ animationFrameRef = "null"

\* C27: when the encoder's stop event has been handled, with or without a
\* Recording stored, the chunk buffer is empty and the start instant of the
\* segment is null.
FinalizeResetsSegment ==
  [][last'.op = "Finalize" =>
       chunksRef' = <<>> /\ recordingStartTimeRef' = NULL]_vars

\* C28: an acquisition that was pending when shutdown() ran and completes
\* next, no toggleListen in between, does not bring a session up: the status
\* stays IDLE, no stream is taken and no loop callback is scheduled.
ShutdownAbandonsPendingAcquisition ==
  [][last.op = "Shutdown" /\ last'.op = "GetUserMediaResolve" =>
       /\ status' = "IDLE"
       /\ streamRef' = NULL /\ liveStreams' \subseteq liveStreams
       /\ PendingLoopCallbacks' <= PendingLoopCallbacks]_vars

\* C29: while the status is ERROR no audio stream is held: none is live and
\* streamRef is null.
NoStreamHeldInError ==
  status = "ERROR" => streamRef = NULL /\ liveStreams = {}

\* C30: where a segment was ended by toggleListen or by shutdown() and its
\* stop is still to be delivered, the delivery of a non-empty chunk followed
\* by the stop event adds exactly one Recording, of that segment's data, at
\* the head of the list.
ForcedStopStoresOneRecording ==
  stopQueue # <<>> =>
    \A id \in StoredIds :
      LET enc == Head(stopQueue).enc
          r == onStop(onDataAvailable([St EXCEPT !.stopQueue = Tail(@)],
                                      enc, 1), id)
      IN /\ Len(r.recordings) = Len(recordings) + 1
         /\ Tail(r.recordings) = recordings
         /\ Head(r.recordings).id = id
         /\ Head(r.recordings).blob = <<enc>>

\* the stop event of a segment ended by the button or by shutdown() has
\* just stored the segment's Recording
ForcedSegmentStored ==
  /\ last.op = "Finalize" /\ last.from = "IDLE"
  /\ recordings # <<>> /\ Head(recordings).timestamp = now
  /\ stopQueue = <<>>

\* C31: no Recording is handed to the webhook more than once, whatever
\* finalize, deleteRecording and handleUpdateRecording steps change the list.
ForwardedAtMostOnce == \A id \in StoredIds : forwarded[id] <= 1

\* C32: a remote start or call command that arrives while the status is
\* LISTENING or RECORDING leaves the session as it is: status, stream,
\* analyser, encoder and loop are what they were.
RemoteStartKeepsRunningSession ==
  [][last'.op = "RemoteStart" /\ status \in {"LISTENING", "RECORDING"} =>
       /\ status' = status
       /\ streamRef' = streamRef /\ liveStreams' = liveStreams
       /\ analyserRef' = analyserRef /\ recState' = recState
       /\ animationFrameRef' = animationFrameRef]_vars

\* C33: the voice-active flag is set only while the status is RECORDING; in
\* particular it is not set while the status is LISTENING.
VoiceFlagOnlyWhileRecording == isVoiceActiveRef => status = "RECORDING"

\* C34: the status is RECORDING exactly when the session's encoder is in its
\* recording state.
RecordingIffEncoderRecording ==
  status = "RECORDING" <=>
    (mediaRecorderRef # NULL /\ recState[mediaRecorderRef] = "recording")

====
